---- MODULE Spec2Model ----
(***************************************************************************)
(* A model of the popup lifecycle of flit.ui: the PopupState timer state   *)
(* machine (popup-helpers/popup-state) and the `popup` binding built on    *)
(* it (bindings/popup).                                                    *)
(***************************************************************************)
EXTENDS Integers, Sequences, FiniteSets, TLC

(***************************************************************************)
(* PopupState                                                              *)
(*                                                                         *)
(* A Timeout object is scheduled when constructed and is outstanding until *)
(* it fires or is cancelled.  The field showTimeout (hideTimeout) is       *)
(* "live" when it refers to an outstanding timer and "none" when it is     *)
(* null or refers to a timer that was cancelled or has fired (cancel() on  *)
(* such a timer does nothing, so the two are one state).  showOrphans      *)
(* (hideOrphans) counts the outstanding timers that no field refers to any *)
(* more: they can no longer be cancelled and will fire.                    *)
(***************************************************************************)

\* Delays passed to willShow / willHide: negative, zero and positive.
Delays == {-1, 0, 100, 200}

\* PopupState after construction.
NewPopupState ==
    [opened |-> FALSE, willShowSoon |-> FALSE, willHideSoon |-> FALSE,
     showTimeout |-> "none", hideTimeout |-> "none",
     showOrphans |-> 0, hideOrphans |-> 0]

\* The result of a PopupState method: the new state, the value returned and
\* the events fired, in order.
Res(s, ret, fired) == [s |-> s, ret |-> ret, fired |-> fired]

\* this.showTimeout = new Timeout(...): the field now refers to a new
\* outstanding timer; a timer it referred to stays outstanding.
NewShowTimeout(s) ==
    [s EXCEPT !.showTimeout = "live",
              !.showOrphans = @ + (IF s.showTimeout = "live" THEN 1 ELSE 0)]

NewHideTimeout(s) ==
    [s EXCEPT !.hideTimeout = "live",
              !.hideOrphans = @ + (IF s.hideTimeout = "live" THEN 1 ELSE 0)]

\* willNotShow(): this.showTimeout?.cancel(); willShowSoon = false.
WillNotShow(s) ==
    [s EXCEPT !.showTimeout = "none", !.willShowSoon = FALSE]

\* willNotHide() that cancels the timer and forgets the flag.
WillNotHideKeepsFlag(s) ==
    [s EXCEPT !.hideTimeout = "none"]

\* willNotHide(): this.hideTimeout?.cancel(); hideTimeout = null;
\* willHideSoon = false.
WillNotHide(s) ==
    [s EXCEPT !.hideTimeout = "none", !.willHideSoon = FALSE]

\* show() that opens without firing do-show.
ShowSilently(s) ==
    Res([WillNotHide(WillNotShow(s)) EXCEPT !.opened = TRUE], TRUE, <<>>)

\* show(): cancels both, and opens and fires do-show if not opened.
\* (A method that returns nothing is given the value TRUE.)
Show(s) ==
    LET c == WillNotHide(WillNotShow(s)) IN
    IF ~c.opened
    THEN Res([c EXCEPT !.opened = TRUE], TRUE, <<"do-show">>)
    ELSE Res(c, TRUE, <<>>)

\* hide() that leaves a pending show alone.
HideKeepsPendingShow(s) ==
    LET c == WillNotHide(s) IN
    IF c.opened
    THEN Res([c EXCEPT !.opened = FALSE], TRUE, <<"do-hide">>)
    ELSE Res(c, TRUE, <<>>)

\* hide(): cancels both, and closes and fires do-hide if opened.
Hide(s) ==
    LET c == WillNotHide(WillNotShow(s)) IN
    IF c.opened
    THEN Res([c EXCEPT !.opened = FALSE], TRUE, <<"do-hide">>)
    ELSE Res(c, TRUE, <<>>)

\* willShow() that does not look at willShowSoon: a second request
\* schedules a second timer.
WillShowAgain(s, showDelay) ==
    IF s.opened
    THEN Res(s, FALSE, <<>>)
    ELSE IF showDelay > 0
         THEN Res([NewShowTimeout(s) EXCEPT !.willShowSoon = TRUE], TRUE, <<>>)
         ELSE [Show(s) EXCEPT !.ret = TRUE]

\* willShow() that does not look at opened.
WillShowWhenOpened(s, showDelay) ==
    IF s.willShowSoon
    THEN Res(s, FALSE, <<>>)
    ELSE IF showDelay > 0
         THEN Res([NewShowTimeout(s) EXCEPT !.willShowSoon = TRUE], TRUE, <<>>)
         ELSE [Show(s) EXCEPT !.ret = TRUE]

\* willShow(showDelay).
WillShow(s, showDelay) ==
    IF s.opened \/ s.willShowSoon
    THEN Res(s, FALSE, <<>>)
    ELSE IF showDelay > 0
         THEN Res([NewShowTimeout(s) EXCEPT !.willShowSoon = TRUE], TRUE, <<>>)
         ELSE [Show(s) EXCEPT !.ret = TRUE]

\* willHide() that does not look at willHideSoon.
WillHideAgain(s, hideDelay) ==
    IF ~s.opened
    THEN Res(s, FALSE, <<>>)
    ELSE IF hideDelay > 0
         THEN Res([NewHideTimeout(s) EXCEPT !.willHideSoon = TRUE], TRUE, <<>>)
         ELSE [Hide(s) EXCEPT !.ret = TRUE]

\* willHide(hideDelay).
WillHide(s, hideDelay) ==
    IF ~s.opened \/ s.willHideSoon
    THEN Res(s, FALSE, <<>>)
    ELSE IF hideDelay > 0
         THEN Res([NewHideTimeout(s) EXCEPT !.willHideSoon = TRUE], TRUE, <<>>)
         ELSE [Hide(s) EXCEPT !.ret = TRUE]

\* clear() that cancels nothing.
ClearKeepsTimers(s) ==
    [s EXCEPT !.opened = FALSE]

\* clear().
Clear(s) ==
    [WillNotHide(WillNotShow(s)) EXCEPT !.opened = FALSE]

\* Which outstanding show (hide) timers can fire: the one the field refers
\* to, or one that nothing refers to.
ShowTimersOf(s) ==
    (IF s.showTimeout = "live" THEN {"ref"} ELSE {})
        \cup (IF s.showOrphans > 0 THEN {"orphan"} ELSE {})

HideTimersOf(s) ==
    (IF s.hideTimeout = "live" THEN {"ref"} ELSE {})
        \cup (IF s.hideOrphans > 0 THEN {"orphan"} ELSE {})

\* The show timer's callback: this.showTimeout = null; this.show().
ShowTimeoutCallback(s, which) ==
    LET stillOut == IF which = "orphan" /\ s.showTimeout = "live" THEN 1 ELSE 0
        gone     == IF which = "orphan" THEN 1 ELSE 0
    IN  Show([s EXCEPT !.showTimeout = "none",
                       !.showOrphans = @ - gone + stillOut])

\* The hide timer's callback: this.hide().
HideTimeoutCallback(s, which) ==
    Hide(IF which = "ref" THEN [s EXCEPT !.hideTimeout = "none"]
                          ELSE [s EXCEPT !.hideOrphans = @ - 1])

\* Outstanding timers.
ShowTimersOutstanding(s) ==
    s.showOrphans + (IF s.showTimeout = "live" THEN 1 ELSE 0)

HideTimersOutstanding(s) ==
    s.hideOrphans + (IF s.hideTimeout = "live" THEN 1 ELSE 0)

(***************************************************************************)
(* PopupState driven directly: any sequence of its methods, interleaved    *)
(* with the expiry of its outstanding timers.  No listener is attached;    *)
(* psLast records the last call, its argument, what it returned and the    *)
(* events it fired, and psShown counts the do-show events fired so far.    *)
(***************************************************************************)
VARIABLES ps, psLast, psShown

psVars == <<ps, psLast, psShown>>

\* The methods are called until do-show has fired this many times.
MaxShown == 3

PsInit ==
    /\ ps = NewPopupState
    /\ psLast = [op |-> "new", delay |-> 0, ret |-> TRUE, fired |-> <<>>]
    /\ psShown = 0

PsDo(op, delay, res) ==
    /\ ps' = res.s
    /\ psLast' = [op |-> op, delay |-> delay, ret |-> res.ret, fired |-> res.fired]
    /\ psShown' = psShown + (IF res.fired = <<"do-show">> THEN 1 ELSE 0)

PsWillShow ==
    /\ psShown < MaxShown
    /\ \E d \in Delays : PsDo("willShow", d, WillShow(ps, d))

PsWillNotShow ==
    /\ psShown < MaxShown
    /\ PsDo("willNotShow", 0, Res(WillNotShow(ps), TRUE, <<>>))

PsWillHide ==
    /\ psShown < MaxShown
    /\ \E d \in Delays : PsDo("willHide", d, WillHide(ps, d))

PsWillNotHide ==
    /\ psShown < MaxShown
    /\ PsDo("willNotHide", 0, Res(WillNotHide(ps), TRUE, <<>>))

PsShow ==
    /\ psShown < MaxShown
    /\ PsDo("show", 0, Show(ps))

PsHide ==
    /\ psShown < MaxShown
    /\ PsDo("hide", 0, Hide(ps))

PsClear ==
    /\ psShown < MaxShown
    /\ PsDo("clear", 0, Res(Clear(ps), TRUE, <<>>))

PsShowTimerFires ==
    \E w \in ShowTimersOf(ps) : PsDo("showTimer", 0, ShowTimeoutCallback(ps, w))

PsHideTimerFires ==
    \E w \in HideTimersOf(ps) : PsDo("hideTimer", 0, HideTimeoutCallback(ps, w))

PsNext ==
    \/ PsWillShow
    \/ PsWillNotShow
    \/ PsWillHide
    \/ PsWillNotHide
    \/ PsShow
    \/ PsHide
    \/ PsClear
    \/ PsShowTimerFires
    \/ PsHideTimerFires

(***************************************************************************)
(* The `popup` binding                                                     *)
(*                                                                         *)
(* Each handler is an operator from a world W (the bindings, the document, *)
(* the shared popups, the suspended async sequences) to the world it       *)
(* leaves, because handlers call each other and PopupState's events are    *)
(* delivered synchronously.  W.log lists what the running step did, in     *)
(* order, as <<binding, what, value>>; W.ret is the value last returned.   *)
(***************************************************************************)

Null == 0

NoKey == ""

Bindings == {1, 2}

\* Suspended async sequences at most (the steps that start one are not
\* taken beyond it).
MaxTasks == 2

\* Render results ever created at most.
MaxRendered == 2

\* Rect watchers a binding has leaked at most (the steps that can leak
\* one more are not taken beyond it).
MaxWatchers == 1

\* The alignment options of DefaultPopupOptions: alignPosition and what
\* goes to the Aligner.
DefaultAlign ==
    [alignPosition |-> "b", gap |-> 4, stickToEdges |-> TRUE,
     canSwapPosition |-> TRUE, canShrinkOnY |-> TRUE, fixTriangle |-> FALSE]

DefaultPopupOptions ==
    [key |-> NoKey, trigger |-> "hover", showDelay |-> 100, hideDelay |-> 200,
     transition |-> TRUE, showImmediately |-> FALSE, keepVisible |-> FALSE,
     align |-> DefaultAlign]

\* this.aligner = null.
NoAligner == [content |-> Null]

\* A binding after construction.  trigger and leave are the binder's:
\* the trigger type set on connect and which leave-detection is bound
\* ("none", "trigger": before the popup exists, "both": trigger and popup).
\* unwatchRect is "live" when calling it unbinds an active watcher and
\* "noop" when it is noop or has been called; watchOrphans counts the
\* active watchers that unwatchRect no longer unbinds.
NewBinding ==
    [state |-> NewPopupState, options |-> DefaultPopupOptions,
     renderer |-> "null", unwatchRect |-> "noop", watchOrphans |-> 0,
     rendered |-> Null, popup |-> Null, aligner |-> NoAligner,
     preventedHiding |-> FALSE,
     connected |-> FALSE, trigger |-> "unset", leave |-> "none"]

Log(W, b, what, v) == [W EXCEPT !.log = Append(@, <<b, what, v>>)]

\* A suspended async sequence of binding b.  kind: "show" (doingShowPopup),
\* "update" (updatePopup called by update) or "hide" (doingHidePopup).
\* pc: "settle" (at await untilComplete()), "align" (updatePopup has
\* returned to doingShowPopup, which continues in a microtask) or "leave"
\* (at await transition.leave()).  finish is what the leave transition will
\* resolve to.  hid records that do-hide fired since the sequence started.
Task(b, kind, pc) ==
    [b |-> b, kind |-> kind, pc |-> pc, finish |-> TRUE, hid |-> FALSE]

\* Playing a transition on the binding's Transition object stops the one in
\* flight, whose promise resolves false.
PlayTransition(W, b) ==
    [W EXCEPT !.tasks =
        [i \in DOMAIN @ |->
            IF @[i].b = b /\ @[i].pc = "leave"
            THEN [@[i] EXCEPT !.finish = FALSE] ELSE @[i]]]

\* this.unwatchRect().
UnwatchRect(x) ==
    [x EXCEPT !.unwatchRect = "noop"]

\* this.unwatchRect = LayoutWatcher.watch(...): a watcher the field
\* referred to stays active.
WatchRect(x) ==
    [x EXCEPT !.unwatchRect = "live",
              !.watchOrphans = @ + (IF x.unwatchRect = "live" THEN 1 ELSE 0)]

WatchersActive(x) ==
    x.watchOrphans + (IF x.unwatchRect = "live" THEN 1 ELSE 0)

\* popup.remove().
RemovePopup(W, b, p) ==
    IF p \in W.doc
    THEN Log([W EXCEPT !.doc = @ \ {p}], b, "remove", p)
    ELSE W

(***************************************************************************)
(* SharedPopups (popup-helpers/shared-popups).  cache maps a key to its    *)
(* entry, users is the set of <<popup, binding>> back-references.          *)
(***************************************************************************)
Keys == {"k"}

NoEntry == [popup |-> Null, rendered |-> Null]

UserOf(W, p) ==
    IF \E u \in W.users : u[1] = p
    THEN (CHOOSE u \in W.users : u[1] = p)[2]
    ELSE Null

\* canContentReuse().
CanContentReuse(x) ==
    IF x.options.key = NoKey THEN FALSE
    ELSE IF x.options.keepVisible THEN ~x.state.opened
    ELSE TRUE

\* find(key): the entry, unless its user keeps it.
SharedFind(W, key) ==
    LET e == W.cache[key]
        u == UserOf(W, e.popup)
    IN  IF e = NoEntry THEN NoEntry
        ELSE IF u # Null /\ ~CanContentReuse(W.bd[u]) THEN NoEntry
        ELSE e

\* isCacheOpened(key): the cached popup's user has it opened.
SharedIsCacheOpened(W, key) ==
    LET e == W.cache[key]
        u == UserOf(W, e.popup)
    IN  e # NoEntry /\ u # Null /\ W.bd[u].state.opened

\* setUser(popup, binding) / clearUser(popup).
SharedSetUser(W, p, b) ==
    [W EXCEPT !.users = {u \in @ : u[1] # p} \cup {<<p, b>>}]

SharedClearUser(W, p) ==
    [W EXCEPT !.users = {u \in @ : u[1] # p}]

\* add(key, cache): replaces the entry; a previous entry's popup that no
\* binding uses any more is removed from the document.
SharedAdd(W, b, key, e) ==
    LET old == W.cache[key]
        W1  == IF old # NoEntry /\ old.popup # e.popup /\ UserOf(W, old.popup) = Null
               THEN RemovePopup(W, b, old.popup) ELSE W
    IN  Log([W1 EXCEPT !.cache[key] = e], b, "cache", e.popup)

(***************************************************************************)
(* The binding's handlers                                                  *)
(***************************************************************************)

\* clearContent().
ClearContent(W, b) ==
    LET x  == W.bd[b]
        W1 == IF x.state.opened /\ x.popup # Null
              THEN RemovePopup(W, b, x.popup) ELSE W
        W2 == IF x.options.key # NoKey /\ x.popup # Null
              THEN SharedClearUser(W1, x.popup) ELSE W1
    IN  Log([W2 EXCEPT !.bd[b] =
                [UnwatchRect(x) EXCEPT !.leave = "none",
                                       !.state = Clear(x.state),
                                       !.rendered = Null,
                                       !.popup = Null,
                                       !.aligner = NoAligner,
                                       !.preventedHiding = FALSE]],
            b, "clearContent", 0)

\* The end of doingHidePopup(): unbindLeave, unwatchRect, preventedHiding.
HideCleanup(W, b) ==
    Log([W EXCEPT !.bd[b] =
            [UnwatchRect(@) EXCEPT !.leave = "none", !.preventedHiding = FALSE]],
        b, "cleanup", 0)

\* doingHidePopup() up to its await: with a transition configured it plays
\* the leave transition and suspends; with none it cleans up at once.
DoingHidePopup(W, b) ==
    IF W.bd[b].options.transition
    THEN LET W1 == Log(PlayTransition(W, b), b, "leave", 0)
         IN  [W1 EXCEPT !.tasks = Append(@, Task(b, "hide", "leave"))]
    ELSE HideCleanup(W, b)

\* doingHidePopup() after its await.
DoingHidePopupResume(W, b, finish) ==
    LET x  == W.bd[b]
        W1 == IF finish /\ x.popup # Null THEN RemovePopup(W, b, x.popup) ELSE W
    IN  IF W1.bd[b].state.opened THEN W1 ELSE HideCleanup(W1, b)

\* doHidePopup(): the do-hide listener.
DoHidePopup(W, b) ==
    LET W1 == [W EXCEPT !.tasks =
                  [i \in DOMAIN @ |->
                      IF @[i].b = b /\ @[i].pc = "settle"
                      THEN [@[i] EXCEPT !.hid = TRUE] ELSE @[i]]]
    IN  Log(DoingHidePopup(W1, b), b, "opened-change", 0)

\* updateRenderedProperty().
UpdateRenderedProperty(W, b) ==
    LET x  == W.bd[b]
        W1 == IF x.rendered # Null
              THEN [W EXCEPT !.rend[x.rendered] = x.renderer] ELSE W
        e  == IF x.rendered = Null /\ x.options.key # NoKey
              THEN SharedFind(W1, x.options.key) ELSE NoEntry
        W2 == IF e # NoEntry
              THEN [W1 EXCEPT !.bd[b].rendered = e.rendered, !.bd[b].popup = e.popup]
              ELSE W1
    IN  IF W2.bd[b].rendered = Null
        THEN [W2 EXCEPT !.rend = Append(@, x.renderer),
                        !.bd[b].rendered = Len(W2.rend) + 1]
        ELSE W2

\* updatePopup() up to its await.
UpdatePopup(W, b, kind) ==
    [UpdateRenderedProperty(W, b) EXCEPT !.tasks = Append(@, Task(b, kind, "settle"))]

\* doShowPopup(): the do-show listener; doingShowPopup() runs up to the
\* await in updatePopup().
DoShowPopup(W, b) ==
    Log(UpdatePopup(W, b, "show"), b, "opened-change", 1)

\* An event-firing PopupState method called on the binding's state: the
\* state changes, then the listener of the event fired runs.
Dispatch(W, b, res) ==
    LET W1 == [W EXCEPT !.bd[b].state = res.s]
        W2 == IF res.fired = <<"do-show">> THEN DoShowPopup(Log(W1, b, "do-show", 0), b)
              ELSE IF res.fired = <<"do-hide">> THEN DoHidePopup(Log(W1, b, "do-hide", 0), b)
              ELSE W1
    IN  [W2 EXCEPT !.ret = res.ret]

\* showPopup() / hidePopup().
ShowPopup(W, b) == Dispatch(W, b, Show(W.bd[b].state))

HidePopup(W, b) == Dispatch(W, b, Hide(W.bd[b].state))

\* hidePopupLater().
HidePopupLater(W, b) ==
    LET x == W.bd[b]
        r == WillHide(x.state, x.options.hideDelay)
    IN  Dispatch(Log(W, b, "willHide", x.options.hideDelay), b, r)

\* A show delay that ignores the trigger type.
ShowDelayForAnyTrigger(W, b) ==
    LET x == W.bd[b]
    IN  IF x.options.key # NoKey /\ SharedIsCacheOpened(W, x.options.key)
        THEN 0 ELSE x.options.showDelay

\* The delay showPopupLater() passes to willShow.
EffectiveShowDelay(W, b) ==
    LET x  == W.bd[b]
        d1 == IF x.options.key # NoKey /\ SharedIsCacheOpened(W, x.options.key)
              THEN 0 ELSE x.options.showDelay
    IN  IF x.trigger = "click" \/ x.trigger = "focus" THEN 0 ELSE d1

\* showPopupLater().
ShowPopupLater(W, b) ==
    LET d  == EffectiveShowDelay(W, b)
        W1 == Dispatch(Log(W, b, "willShow", d), b, WillShow(W.bd[b].state, d))
    IN  IF W1.ret
        THEN Log([W1 EXCEPT !.bd[b].leave = "trigger"], b, "bindLeaveBeforeShow", 0)
        ELSE W1

\* getAlignerOptions() (the triangle element left out).
GetAlignerOptions(x) ==
    [gap |-> x.options.align.gap,
     stickToEdges |-> x.options.align.stickToEdges,
     canSwapPosition |-> x.options.align.stickToEdges,
     canShrinkOnY |-> x.options.align.canShrinkOnY,
     fixTriangle |-> x.options.align.fixTriangle]

\* new Aligner(this.popup.el, alignTo, this.options.alignPosition,
\* this.getAlignerOptions()); the element to align to is the trigger.
NewAligner(x) ==
    [content |-> x.popup, position |-> x.options.align.alignPosition,
     options |-> GetAlignerOptions(x)]

\* alignPopup(): aligned is what aligner.align() returns.  Without a popup
\* the read of this.popup!.el throws.  The Aligner is replaced when there
\* is none or when it is for another popup element.
AlignPopup(W, b, aligned) ==
    LET x == W.bd[b] IN
    IF ~x.state.opened THEN [W EXCEPT !.ret = FALSE]
    ELSE IF x.popup = Null
    THEN [Log(Log(W, b, "will-align", 0), b, "throw", 0) EXCEPT !.thrown = TRUE, !.ret = FALSE]
    ELSE LET W0 == IF x.aligner.content = Null \/ x.aligner.content # x.popup
                   THEN [W EXCEPT !.bd[b].aligner = NewAligner(x)] ELSE W
             W1 == Log(Log(W0, b, "will-align", 0), b, "align", IF aligned THEN 1 ELSE 0)
         IN  IF aligned THEN [W1 EXCEPT !.ret = TRUE]
             ELSE [HidePopup(W1, b) EXCEPT !.ret = FALSE]

\* !!this.popup.el.ownerDocument: the ownerDocument of an element is its
\* document whether or not the element is attached, never null.
InDomAlready(W, p) == TRUE

\* appendPopup().
AppendPopup(W, b, aligned) ==
    LET x  == W.bd[b]
        in == InDomAlready(W, x.popup)
        W1 == Log([W EXCEPT !.doc = @ \cup {x.popup}], b, "append", x.popup)
        W2 == AlignPopup(W1, b, aligned)
        W3 == IF ~in /\ x.options.transition
              THEN Log(PlayTransition(W2, b), b, "enter", 0) ELSE W2
    IN  IF ~W2.ret THEN W2
        ELSE Log([W3 EXCEPT !.bd[b] = WatchRect(@)], b, "watch", 0)

\* Popup.from(rendered.el.firstElementChild): the rendered result's Popup,
\* if its renderer renders one.
PopupFrom(W, r) == IF W.rend[r] = "popup" THEN r ELSE Null

\* updatePopupProperty(popup).
UpdatePopupProperty(W, b, p) ==
    Log(Log([W EXCEPT !.owners = {u \in @ : u[1] # p} \cup {<<p, b>>},
                      !.bd[b].leave = "both", !.bd[b].popup = p],
            b, "setBinding", p), b, "bindLeave", p)

\* updatePopup() that does not recheck opened after its await.
UpdatePopupResumeUnchecked(W, b, aligned) ==
    LET x == W.bd[b]
        p == IF x.rendered = Null THEN Null ELSE PopupFrom(W, x.rendered)
    IN  IF p = Null THEN [Log(W, b, "throw", 0) EXCEPT !.thrown = TRUE]
        ELSE LET W1 == Log(W, b, "pointerEvents", p)
                 W2 == IF p # x.popup THEN UpdatePopupProperty(W1, b, p) ELSE W1
                 W3 == AppendPopup(W2, b, aligned)
             IN  IF x.options.key # NoKey
                 THEN SharedSetUser(
                        SharedAdd(W3, b, x.options.key, [popup |-> p, rendered |-> x.rendered]),
                        p, b)
                 ELSE W3

\* updatePopup() that appends what was rendered before it looks for the
\* <Popup> in it.
UpdatePopupResumeAppendsFirst(W, b, aligned) ==
    LET x == W.bd[b]
        p == PopupFrom(W, x.rendered)
    IN  IF ~x.state.opened THEN W
        ELSE IF p = Null
        THEN [Log(Log([W EXCEPT !.doc = @ \cup {x.rendered}], b, "append", x.rendered),
                  b, "throw", 0) EXCEPT !.thrown = TRUE]
        ELSE LET W1 == Log(W, b, "pointerEvents", p)
                 W2 == IF p # x.popup THEN UpdatePopupProperty(W1, b, p) ELSE W1
                 W3 == AppendPopup(W2, b, aligned)
             IN  IF x.options.key # NoKey
                 THEN SharedSetUser(
                        SharedAdd(W3, b, x.options.key, [popup |-> p, rendered |-> x.rendered]),
                        p, b)
                 ELSE W3

\* updatePopup() after its await.
UpdatePopupResume(W, b, aligned) ==
    LET x == W.bd[b]
        p == PopupFrom(W, x.rendered)
    IN  IF ~x.state.opened THEN W
        ELSE IF p = Null THEN [Log(W, b, "throw", 0) EXCEPT !.thrown = TRUE]
        ELSE LET W1 == Log(W, b, "pointerEvents", p)
                 W2 == IF p # x.popup THEN UpdatePopupProperty(W1, b, p) ELSE W1
                 W3 == AppendPopup(W2, b, aligned)
             IN  IF x.options.key # NoKey
                 THEN SharedSetUser(
                        SharedAdd(W3, b, x.options.key, [popup |-> p, rendered |-> x.rendered]),
                        p, b)
                 ELSE W3

\* update() that forgets the deferred hide.
UpdateWithoutDeferredHide(W, b, renderer, options) ==
    LET W1 == [W EXCEPT !.bd[b].renderer = renderer, !.bd[b].options = options]
    IN  IF W1.bd[b].state.opened THEN UpdatePopup(W1, b, "update") ELSE W1

\* update(renderer, options).
Update(W, b, renderer, options) ==
    LET W1 == [W EXCEPT !.bd[b].renderer = renderer, !.bd[b].options = options]
        W2 == IF W1.bd[b].state.opened THEN UpdatePopup(W1, b, "update") ELSE W1
    IN  IF W2.bd[b].preventedHiding /\ ~options.keepVisible
        THEN HidePopupLater(W2, b) ELSE W2

\* onWillHide() that does not look at keepVisible.
OnWillHideAlways(W, b) == HidePopupLater(W, b)

\* onWillHide().
OnWillHide(W, b) ==
    IF W.bd[b].options.keepVisible
    THEN [W EXCEPT !.bd[b].preventedHiding = TRUE]
    ELSE HidePopupLater(W, b)

\* onCancelShow().
OnCancelShow(W, b) ==
    IF W.bd[b].state.opened THEN HidePopup(W, b)
    ELSE [W EXCEPT !.bd[b].state = WillNotShow(@)]

\* onImmediateHide().
OnImmediateHide(W, b) ==
    IF W.bd[b].options.keepVisible
    THEN [W EXCEPT !.bd[b].preventedHiding = TRUE]
    ELSE HidePopup(W, b)

\* onToggleShowHide().
OnToggleShowHide(W, b) ==
    IF W.bd[b].state.opened THEN HidePopup(W, b) ELSE ShowPopup(W, b)

\* onTriggerRectChanged() that realigns wherever the trigger is.
RectChangedAlwaysAligns(W, b, inView, aligned) ==
    LET W1 == AlignPopup(W, b, aligned)
    IN  IF W1.thrown THEN W1
        ELSE [W1 EXCEPT !.bd[b].unwatchRect = "noop",
                        !.bd[b].watchOrphans =
                            @ + (IF W1.bd[b].unwatchRect = "live" THEN 1 ELSE 0)]

\* onTriggerRectChanged(): inView is whether the trigger's rect intersects
\* the viewport.  The watcher stays active.
OnTriggerRectChanged(W, b, inView, aligned) ==
    LET W1 == IF inView THEN AlignPopup(W, b, aligned) ELSE HidePopup(W, b)
    IN  IF W1.thrown THEN W1
        ELSE [W1 EXCEPT !.bd[b].unwatchRect = "noop",
                        !.bd[b].watchOrphans =
                            @ + (IF W1.bd[b].unwatchRect = "live" THEN 1 ELSE 0)]

\* afterConnectCallback().
AfterConnectCallback(W, b) ==
    LET W1 == [W EXCEPT !.bd[b].trigger = W.bd[b].options.trigger,
                        !.bd[b].connected = TRUE]
    IN  IF W.bd[b].options.showImmediately THEN ShowPopupLater(W1, b) ELSE W1

\* beforeDisconnectCallback().
BeforeDisconnectCallback(W, b) ==
    LET x  == W.bd[b]
        W1 == IF x.state.opened /\ x.popup # Null
              THEN RemovePopup(W, b, x.popup) ELSE W
    IN  Log([W1 EXCEPT !.bd[b] =
                [UnwatchRect(x) EXCEPT !.state = Clear(x.state),
                                       !.leave = "none",
                                       !.preventedHiding = FALSE,
                                       !.connected = FALSE]],
            b, "disconnect", 0)

(***************************************************************************)
(* Table (components/table): ordering by column                            *)
(*                                                                         *)
(* null is NoName for a name and "null" for a direction.  A column is      *)
(* [name, orderBy, descFirst]: name is NoName when omitted, orderBy is     *)
(* whether the option is given.                                            *)
(***************************************************************************)

\* Columns of a table at most.
MaxColumns == 2

NoName == ""

\* 'column_' + index.
IndexNames == <<"column_0", "column_1", "column_2", "column_3">>

\* The names given to the columns that have one: unique, by index.
GivenNames == <<"id", "title", "date", "size">>

\* orderName and orderDirection after construction.
NewTable == [orderName |-> NoName, orderDirection |-> "null"]

\* getColumnName(column, index), index counted from 0.
GetColumnName(column, index) ==
    IF column.name = NoName THEN IndexNames[index + 1] ELSE column.name

\* applyOrder(), watching orderName and orderDirection: the order-change
\* events fired once a handler that turned table t into u has run.
ApplyOrder(t, u) ==
    IF <<u.orderName, u.orderDirection>> # <<t.orderName, t.orderDirection>>
    THEN << <<u.orderName, u.orderDirection>> >>
    ELSE <<>>

\* doOrdering() that knows no third, unordered, state.
DoOrderingTwoWay(t, cols, onResizer, index) ==
    LET column     == cols[index + 1]
        columnName == GetColumnName(column, index)
        direction  ==
            IF columnName = t.orderName
            THEN IF t.orderDirection = "asc" THEN "desc" ELSE "asc"
            ELSE IF column.descFirst THEN "desc" ELSE "asc"
    IN  IF onResizer THEN t
        ELSE IF ~column.orderBy THEN t
        ELSE [orderName |-> columnName, orderDirection |-> direction]

\* doOrdering(e, index): onResizer is whether e.target is inside an element
\* of class resizer.
DoOrdering(t, cols, onResizer, index) ==
    LET column     == cols[index + 1]
        descFirst  == column.descFirst
        columnName == GetColumnName(column, index)
        direction  ==
            IF columnName = t.orderName
            THEN IF descFirst
                 THEN IF t.orderDirection = "null" THEN "desc"
                      ELSE IF t.orderDirection = "desc" THEN "asc" ELSE "null"
                 ELSE IF t.orderDirection = "null" THEN "asc"
                      ELSE IF t.orderDirection = "asc" THEN "desc" ELSE "null"
            ELSE IF descFirst THEN "desc" ELSE "asc"
    IN  IF onResizer THEN t
        ELSE IF ~column.orderBy THEN t
        ELSE [orderName |-> columnName, orderDirection |-> direction]

VARIABLES
    columns,   \* the table's column configuration
    tbl,       \* the table's orderName and orderDirection
    tblFired,  \* the order-change events the last step fired
    tblLast    \* the last step: what ran, and on which column

tableVars == <<columns, tbl, tblFired, tblLast>>

\* No table.
NoTable ==
    /\ columns = <<>>
    /\ tbl = NewTable
    /\ tblFired = <<>>
    /\ tblLast = [op |-> "init", index |-> 0]

\* The column configurations: each column named or not, orderable or not,
\* desc first or not.
ColumnChoices ==
    {cs \in [1..MaxColumns ->
                [name : {NoName} \cup {GivenNames[i] : i \in 1..MaxColumns},
                 orderBy : BOOLEAN, descFirst : BOOLEAN]] :
        \A i \in 1..MaxColumns : cs[i].name \in {NoName, GivenNames[i]}}

TableInit ==
    /\ columns \in ColumnChoices
    /\ tbl = NewTable
    /\ tblFired = <<>>
    /\ tblLast = [op |-> "init", index |-> 0]

\* A click on the head of a column.
TableClick ==
    \E index \in 0..(Len(columns) - 1) : \E onResizer \in BOOLEAN :
        LET u == DoOrdering(tbl, columns, onResizer, index)
        IN  /\ tbl' = u
            /\ tblFired' = ApplyOrder(tbl, u)
            /\ tblLast' = [op |-> IF onResizer THEN "resizer" ELSE "click",
                           index |-> index]
            /\ UNCHANGED columns

\* orderName and orderDirection are assigned from outside.
TableSetOrder ==
    \E n \in {NoName} \cup {GetColumnName(columns[i], i - 1) : i \in DOMAIN columns} :
    \E d \in {"asc", "desc", "null"} :
        LET u == [orderName |-> n, orderDirection |-> d]
        IN  /\ tbl' = u
            /\ tblFired' = ApplyOrder(tbl, u)
            /\ tblLast' = [op |-> "set", index |-> 0]
            /\ UNCHANGED columns

(***************************************************************************)
(* The state machine                                                       *)
(***************************************************************************)
VARIABLES
    bd,      \* the bindings
    doc,     \* the popups attached to the document
    rend,    \* the render results created: the renderer each one has
    cache,   \* SharedPopups: key -> entry
    users,   \* SharedPopups: the <<popup, binding>> back-references
    owners,  \* Popup.binding: the <<popup, binding>> set by setBinding()
    tasks,   \* the suspended async sequences, oldest first
    scn      \* the scenario: the bindings that exist and what update() is given

bindingVars == <<bd, doc, rend, cache, users, owners, tasks, scn>>

vars == <<ps, psLast, psShown, bd, doc, rend, cache, users, owners, tasks, scn,
         columns, tbl, tblFired, tblLast>>

World ==
    [bd |-> bd, doc |-> doc, rend |-> rend, cache |-> cache, users |-> users,
     owners |-> owners, tasks |-> tasks, log |-> <<>>, ret |-> TRUE, thrown |-> FALSE]

\* Popup p is still referenced: by a binding, by the shared cache or by the
\* document.  A popup nothing refers to is garbage, and so is its binding.
Held(W, p) ==
    \/ p \in W.doc
    \/ \E b \in Bindings : W.bd[b].popup = p \/ W.bd[b].rendered = p
    \/ \E k \in Keys : W.cache[k].popup = p

\* The step leaves the world W (evaluated once).
Commit(W) ==
    \E V \in {W} :
        /\ bd' = V.bd
        /\ doc' = V.doc
        /\ rend' = V.rend
        /\ cache' = V.cache
        /\ users' = V.users
        /\ owners' = {u \in V.owners : Held(V, u[1])}
        /\ tasks' = V.tasks
        /\ UNCHANGED <<scn, ps, psLast, psShown, tableVars>>

BindingInit ==
    /\ bd = [b \in Bindings |-> NewBinding]
    /\ doc = {}
    /\ rend = <<>>
    /\ cache = [k \in Keys |-> NoEntry]
    /\ users = {}
    /\ owners = {}
    /\ tasks = <<>>

Renderers == {"popup", "other"}

\* One binding, with or without a key, triggered by hover or by click, whose
\* renderer renders a <Popup> or something else.  (The key and the trigger
\* type are not to be changed once the binding is initialized, and what the
\* renderer renders is the template's.)
SingleScenarios ==
    {[live |-> {1}, key |-> k, trigger |-> tr, renderer |-> r,
      hideDelays |-> {0, 200}, showDelays |-> {100}, transitions |-> BOOLEAN,
      keeps |-> BOOLEAN, immediates |-> {FALSE},
      aligns |-> {DefaultAlign}] :
        k \in {NoKey, "k"}, tr \in {"hover", "click"}, r \in Renderers}

\* The options update() is given.
OptionChoices ==
    {[key |-> scn.key, trigger |-> scn.trigger, showDelay |-> sd, hideDelay |-> hd,
      transition |-> tn, showImmediately |-> si, keepVisible |-> kv,
      align |-> al] :
        sd \in scn.showDelays, hd \in scn.hideDelays,
        tn \in scn.transitions, kv \in scn.keeps, si \in scn.immediates,
        al \in scn.aligns}

\* No continuation is waiting in the microtask queue: timers, DOM events and
\* calls from outside run only then.
Quiet == \A i \in DOMAIN tasks : tasks[i].pc # "align"

\* A step from outside is taken only while another async sequence fits the
\* bound.
Room ==
    /\ Quiet
    /\ Len(tasks) < MaxTasks

\* A step that can start a show sequence or an update of the popup.
RoomToShow(b) == Room /\ bd[b].watchOrphans < MaxWatchers

Connect(b) ==
    /\ RoomToShow(b)
    /\ ~bd[b].connected
    /\ bd[b].renderer # "null"
    /\ Commit(AfterConnectCallback(World, b))

Disconnect(b) ==
    /\ Room
    /\ bd[b].connected
    /\ Commit(BeforeDisconnectCallback(World, b))

CallUpdate(b) ==
    /\ RoomToShow(b)
    /\ \E o \in OptionChoices : Commit(Update(World, b, scn.renderer, o))

\* showPopupLater(), called from outside or by onWillShow().
CallShowPopupLater(b) ==
    /\ RoomToShow(b)
    /\ bd[b].connected
    /\ Commit(ShowPopupLater(World, b))

CallShowPopup(b) ==
    /\ RoomToShow(b)
    /\ bd[b].connected
    /\ Commit(ShowPopup(World, b))

CallHidePopupLater(b) ==
    /\ Room
    /\ bd[b].connected
    /\ Commit(HidePopupLater(World, b))

CallHidePopup(b) ==
    /\ Room
    /\ bd[b].connected
    /\ Commit(HidePopup(World, b))

\* The binder's intents (popup-helpers/popup-trigger-binder): will-hide on
\* leaving trigger and popup (hover) or on blur (focus), cancel-show on
\* leaving the trigger before the popup exists (hover), toggle-show-hide on
\* click or contextmenu, immediate-hide from outside.
WillHideIntent(b) ==
    /\ Room
    /\ bd[b].connected
    /\ \/ bd[b].trigger = "hover" /\ bd[b].leave = "both"
       \/ bd[b].trigger = "focus"
    /\ Commit(OnWillHide(World, b))

CancelShowIntent(b) ==
    /\ Room
    /\ bd[b].connected
    /\ bd[b].trigger = "hover" /\ bd[b].leave = "trigger"
    /\ Commit(OnCancelShow(World, b))

ImmediateHideIntent(b) ==
    /\ Room
    /\ bd[b].connected
    /\ Commit(OnImmediateHide(World, b))

ToggleShowHideIntent(b) ==
    /\ RoomToShow(b)
    /\ bd[b].connected
    /\ bd[b].trigger \in {"click", "contextmenu"}
    /\ Commit(OnToggleShowHide(World, b))

\* clearContent() is called only while another render result can be
\* created for every binding that has none.
CallClearContent(b) ==
    /\ Room
    /\ Len(rend) + Cardinality({c \in scn.live : c = b \/ bd[c].rendered = Null})
          <= MaxRendered
    /\ Commit(ClearContent(World, b))

ShowTimerFires(b) ==
    /\ Quiet
    /\ \E w \in ShowTimersOf(bd[b].state) :
          Commit(Dispatch(World, b, ShowTimeoutCallback(bd[b].state, w)))

HideTimerFires(b) ==
    /\ Quiet
    /\ \E w \in HideTimersOf(bd[b].state) :
          Commit(Dispatch(World, b, HideTimeoutCallback(bd[b].state, w)))

RectChanged(b) ==
    /\ Quiet
    /\ WatchersActive(bd[b]) > 0
    /\ \E inView \in BOOLEAN, aligned \in BOOLEAN :
          Commit(OnTriggerRectChanged(World, b, inView, aligned))

Without(s, i) == SubSeq(s, 1, i - 1) \o SubSeq(s, i + 1, Len(s))

\* Task i is the one that has waited longest at pc.
Oldest(i, pc) ==
    /\ i \in DOMAIN tasks
    /\ tasks[i].pc = pc
    /\ \A j \in 1..(i - 1) : tasks[j].pc # pc

\* The sequence suspended as task i resumes in updatePopup();
\* doingShowPopup() then continues in a microtask unless updatePopup() threw.
Settled(i, aligned) ==
    LET t  == tasks[i]
        W1 == UpdatePopupResume([World EXCEPT !.tasks = Without(@, i)], t.b, aligned)
    IN  IF t.kind = "show" /\ ~W1.thrown
        THEN [W1 EXCEPT !.tasks = Append(@, Task(t.b, "show", "align"))]
        ELSE W1

\* doingShowPopup() after await this.updatePopup().
Continued(i, aligned) ==
    AlignPopup([World EXCEPT !.tasks = Without(@, i)], tasks[i].b, aligned)

\* doingHidePopup() after await this.transition.leave().
Left(i) ==
    DoingHidePopupResume([World EXCEPT !.tasks = Without(@, i)],
                         tasks[i].b, tasks[i].finish)

\* The render pipeline settles: the sequence that has waited longest at
\* untilComplete() resumes.
RenderSettles ==
    \E i \in DOMAIN tasks :
        /\ Oldest(i, "settle")
        /\ \E aligned \in BOOLEAN : Commit(Settled(i, aligned))

ShowContinues ==
    \E i \in DOMAIN tasks :
        /\ Oldest(i, "align")
        /\ \E aligned \in BOOLEAN : Commit(Continued(i, aligned))

\* A leave transition resolves.
LeaveResolves ==
    \E i \in DOMAIN tasks :
        /\ Quiet
        /\ tasks[i].pc = "leave"
        /\ Commit(Left(i))

BindingNext ==
    \/ \E b \in scn.live : Connect(b)
    \/ \E b \in scn.live : Disconnect(b)
    \/ \E b \in scn.live : CallUpdate(b)
    \/ \E b \in scn.live : CallShowPopupLater(b)
    \/ \E b \in scn.live : CallShowPopup(b)
    \/ \E b \in scn.live : CallHidePopupLater(b)
    \/ \E b \in scn.live : CallHidePopup(b)
    \/ \E b \in scn.live : WillHideIntent(b)
    \/ \E b \in scn.live : CancelShowIntent(b)
    \/ \E b \in scn.live : ImmediateHideIntent(b)
    \/ \E b \in scn.live : ToggleShowHideIntent(b)
    \/ \E b \in scn.live : CallClearContent(b)
    \/ \E b \in scn.live : ShowTimerFires(b)
    \/ \E b \in scn.live : HideTimerFires(b)
    \/ \E b \in scn.live : RectChanged(b)
    \/ RenderSettles
    \/ ShowContinues
    \/ LeaveResolves

(***************************************************************************)
(* Specifications                                                          *)
(***************************************************************************)

\* One binding.
Init ==
    /\ PsInit
    /\ BindingInit
    /\ NoTable
    /\ scn \in SingleScenarios

Next == BindingNext

Spec == Init /\ [][Next]_vars

\* One binding without a key whose renderer renders a <Popup>, with a
\* transition and a positive hide delay.
LiveScenarios ==
    {[live |-> {1}, key |-> NoKey, trigger |-> tr, renderer |-> "popup",
      hideDelays |-> {200}, showDelays |-> {100}, transitions |-> {TRUE},
      keeps |-> BOOLEAN, immediates |-> {FALSE},
      aligns |-> {DefaultAlign}] :
        tr \in {"hover", "click"}}

LiveInit ==
    /\ PsInit
    /\ BindingInit
    /\ NoTable
    /\ scn \in LiveScenarios

\* A scheduled timer that is not cancelled fires, and a continuation in the
\* microtask queue runs.
LiveSpec ==
    /\ LiveInit
    /\ [][Next]_vars
    /\ \A b \in Bindings : WF_vars(ShowTimerFires(b))
    /\ \A b \in Bindings : WF_vars(HideTimerFires(b))
    /\ WF_vars(ShowContinues)

\* Two bindings that share a key, triggered by hover.
SharedInit ==
    /\ PsInit
    /\ BindingInit
    /\ NoTable
    /\ scn = [live |-> {1, 2}, key |-> "k", trigger |-> "hover", renderer |-> "popup",
              hideDelays |-> {200}, showDelays |-> {100}, transitions |-> {TRUE},
              keeps |-> BOOLEAN, immediates |-> {FALSE},
              aligns |-> {DefaultAlign}]

SharedNext ==
    \/ \E b \in scn.live : Connect(b)
    \/ \E b \in scn.live : CallUpdate(b)
    \/ \E b \in scn.live : CallShowPopupLater(b)
    \/ \E b \in scn.live : CallShowPopup(b)
    \/ \E b \in scn.live : CallHidePopup(b)
    \/ \E b \in scn.live : WillHideIntent(b)
    \/ \E b \in scn.live : ShowTimerFires(b)
    \/ \E b \in scn.live : HideTimerFires(b)
    \/ RenderSettles
    \/ ShowContinues
    \/ LeaveResolves

SharedSpec == SharedInit /\ [][SharedNext]_vars

\* Two bindings that share a key, triggered by hover or by click, shown on
\* connect or by showPopupLater(), without transition.
SwitchScenarios ==
    {[live |-> {1, 2}, key |-> "k", trigger |-> tr, renderer |-> "popup",
      hideDelays |-> {200}, showDelays |-> {100}, transitions |-> {FALSE},
      keeps |-> {FALSE}, immediates |-> BOOLEAN,
      aligns |-> {DefaultAlign}] :
        tr \in {"hover", "click"}}

SwitchInit ==
    /\ PsInit
    /\ BindingInit
    /\ NoTable
    /\ scn \in SwitchScenarios

SwitchNext ==
    \/ \E b \in scn.live : Connect(b)
    \/ \E b \in scn.live : CallUpdate(b)
    \/ \E b \in scn.live : CallShowPopupLater(b)
    \/ \E b \in scn.live : CallHidePopup(b)
    \/ \E b \in scn.live : ShowTimerFires(b)
    \/ RenderSettles
    \/ ShowContinues

SwitchSpec == SwitchInit /\ [][SwitchNext]_vars

\* The alignment options update() is given in AlignScenarios: the default
\* ones, another position, another gap, and the two options about the
\* edges set apart.
AlignChoices ==
    {DefaultAlign,
     [DefaultAlign EXCEPT !.alignPosition = "t"],
     [DefaultAlign EXCEPT !.gap = 8],
     [DefaultAlign EXCEPT !.stickToEdges = FALSE, !.canSwapPosition = FALSE],
     [DefaultAlign EXCEPT !.canSwapPosition = FALSE]}

\* One binding without a key, triggered by click, whose renderer renders a
\* <Popup>, updated with different alignment options.
AlignScenarios ==
    {[live |-> {1}, key |-> NoKey, trigger |-> "click", renderer |-> "popup",
      hideDelays |-> {200}, showDelays |-> {100}, transitions |-> {tn},
      keeps |-> {FALSE}, immediates |-> {FALSE},
      aligns |-> AlignChoices] :
        tn \in BOOLEAN}

AlignInit ==
    /\ PsInit
    /\ BindingInit
    /\ NoTable
    /\ scn \in AlignScenarios

AlignNext ==
    \/ \E b \in scn.live : Connect(b)
    \/ \E b \in scn.live : CallUpdate(b)
    \/ \E b \in scn.live : ToggleShowHideIntent(b)
    \/ \E b \in scn.live : RectChanged(b)
    \/ RenderSettles
    \/ ShowContinues
    \/ LeaveResolves

AlignSpec == AlignInit /\ [][AlignNext]_vars

\* A table alone.
TableSpecInit ==
    /\ PsInit
    /\ BindingInit
    /\ TableInit
    /\ scn = [live |-> {}, key |-> NoKey, trigger |-> "none", renderer |-> "popup",
              hideDelays |-> {}, showDelays |-> {}, transitions |-> {},
              keeps |-> {}, immediates |-> {}, aligns |-> {}]

TableNext ==
    \/ TableClick /\ UNCHANGED <<psVars, bindingVars>>
    \/ TableSetOrder /\ UNCHANGED <<psVars, bindingVars>>

TableSpec == TableSpecInit /\ [][TableNext]_vars

\* PopupState alone.
StateInit ==
    /\ PsInit
    /\ BindingInit
    /\ NoTable
    /\ scn = [live |-> {}, key |-> NoKey, trigger |-> "none", renderer |-> "popup",
              hideDelays |-> {}, showDelays |-> {}, transitions |-> {},
              keeps |-> {}, immediates |-> {}, aligns |-> {}]

StateNext == PsNext /\ UNCHANGED <<bindingVars, tableVars>>

StateSpec == StateInit /\ [][StateNext]_vars

\* A scheduled timer that is not cancelled fires.
StateLive ==
    /\ StateSpec
    /\ WF_vars(PsShowTimerFires /\ UNCHANGED <<bindingVars, tableVars>>)
    /\ WF_vars(PsHideTimerFires /\ UNCHANGED <<bindingVars, tableVars>>)

(***************************************************************************)
(* Properties of PopupState (checked under StateSpec / StateLive)          *)
(***************************************************************************)

\* C1: after any sequence of PopupState operations and timer expirations,
\* at most one show timer and at most one hide timer is outstanding.
C1_AtMostOneTimerEach ==
    /\ ShowTimersOutstanding(ps) <= 1
    /\ HideTimersOutstanding(ps) <= 1

\* A second willShow() while a show is pending: refused, one timer.
C1_Witness ==
    /\ psLast.op = "willShow"
    /\ psLast.ret = FALSE
    /\ ps.willShowSoon
    /\ ShowTimersOutstanding(ps) = 1

\* C5 as claimed: after willShow() no hide timer is outstanding, and after
\* willHide() no show timer is outstanding.
C5_OpposingTimerCancelled ==
    /\ psLast.op = "willShow" => HideTimersOutstanding(ps) = 0
    /\ psLast.op = "willHide" => ShowTimersOutstanding(ps) = 0

\* C8: willShow(delay) when opened or when a show is pending returns false,
\* fires nothing and leaves opened, willShowSoon, willHideSoon and the
\* timers as they were, for every delay.
C8_WillShowRefused ==
    [][(psLast'.op = "willShow" /\ (ps.opened \/ ps.willShowSoon))
          => (psLast'.ret = FALSE /\ psLast'.fired = <<>> /\ ps' = ps)]_vars

\* willShow(0) has been refused on an opened popup.
C8_Witness ==
    /\ psLast.op = "willShow"
    /\ psLast.delay = 0
    /\ psLast.ret = FALSE
    /\ ps.opened

\* C9: willShow(delay) when hidden with no show pending returns true; with
\* delay <= 0 it opens and fires do-show once; with delay > 0 it fires
\* nothing and a show is pending on one timer, which, unless the show is
\* cancelled, eventually fires, opening and firing do-show once.
C9_WillShowAccepted ==
    /\ [][(psLast'.op = "willShow" /\ ~ps.opened /\ ~ps.willShowSoon)
            => /\ psLast'.ret = TRUE
               /\ IF psLast'.delay <= 0
                  THEN /\ ps'.opened
                       /\ ~ps'.willShowSoon
                       /\ psLast'.fired = <<"do-show">>
                       /\ ShowTimersOutstanding(ps') = 0
                  ELSE /\ ~ps'.opened
                       /\ ps'.willShowSoon
                       /\ psLast'.fired = <<>>
                       /\ ShowTimersOutstanding(ps') = 1]_vars
    /\ [][psLast'.op = "showTimer"
            => /\ ~ps.opened
               /\ ps'.opened
               /\ ~ps'.willShowSoon
               /\ psLast'.fired = <<"do-show">>
               /\ ShowTimersOutstanding(ps') = 0]_vars
    /\ (ps.willShowSoon ~> (ps.opened \/ ~ps.willShowSoon))

\* The timer of a delayed show has fired.
C9_Witness ==
    /\ psLast.op = "showTimer"
    /\ psLast.fired = <<"do-show">>
    /\ ps.opened

\* C10: willHide(delay) returns false and changes nothing when not opened
\* or when a hide is pending; otherwise it returns true and hides at once,
\* firing do-hide once (delay <= 0), or schedules one hide timer, whose
\* expiry closes and fires do-hide once.
C10_WillHide ==
    [][/\ psLast'.op = "willHide"
          => IF ~ps.opened \/ ps.willHideSoon
             THEN psLast'.ret = FALSE /\ psLast'.fired = <<>> /\ ps' = ps
             ELSE /\ psLast'.ret = TRUE
                  /\ IF psLast'.delay <= 0
                     THEN /\ ~ps'.opened
                          /\ ~ps'.willHideSoon
                          /\ psLast'.fired = <<"do-hide">>
                          /\ HideTimersOutstanding(ps') = 0
                     ELSE /\ ps'.opened
                          /\ ps'.willHideSoon
                          /\ psLast'.fired = <<>>
                          /\ HideTimersOutstanding(ps') = 1
       /\ psLast'.op = "hideTimer"
          => /\ ps.opened
             /\ ~ps'.opened
             /\ ~ps'.willHideSoon
             /\ psLast'.fired = <<"do-hide">>
             /\ HideTimersOutstanding(ps') = 0]_vars

\* The timer of a delayed hide has fired.
C10_Witness ==
    /\ psLast.op = "hideTimer"
    /\ psLast.fired = <<"do-hide">>
    /\ ~ps.opened

\* C11: show() and hide() are idempotent.  In every state PopupState can be
\* in, show() leaves no timer and no pending request, leaves opened true
\* and fires do-show once if opened was false and nothing otherwise; hide()
\* likewise leaves opened false and fires do-hide once if opened was true;
\* and a second call right after changes nothing and fires nothing.
C11_ShowHideIdempotent ==
    LET r  == Show(ps)
        rr == Show(r.s)
        h  == Hide(ps)
        hh == Hide(h.s)
        Idle(s) == /\ ShowTimersOutstanding(s) = 0
                   /\ HideTimersOutstanding(s) = 0
                   /\ ~s.willShowSoon
                   /\ ~s.willHideSoon
    IN  /\ Idle(r.s) /\ r.s.opened
        /\ r.fired = IF ps.opened THEN <<>> ELSE <<"do-show">>
        /\ rr.s = r.s /\ rr.fired = <<>>
        /\ Idle(h.s) /\ ~h.s.opened
        /\ h.fired = IF ps.opened THEN <<"do-hide">> ELSE <<>>
        /\ hh.s = h.s /\ hh.fired = <<>>

\* hide() was called on a popup that was not opened: nothing fired.
C11_Witness ==
    /\ psLast.op = "hide"
    /\ psLast.fired = <<>>
    /\ ~ps.opened
    /\ psShown > 0

\* C12: clear(), in any state, fires nothing, leaves opened false with no
\* show or hide pending and no timer outstanding, so that no timer fires
\* afterwards.
C12_ClearSilent ==
    [][psLast'.op = "clear"
          => /\ ~ps'.opened
             /\ ~ps'.willShowSoon
             /\ ~ps'.willHideSoon
             /\ ShowTimersOutstanding(ps') = 0
             /\ HideTimersOutstanding(ps') = 0
             /\ ShowTimersOf(ps') = {} /\ HideTimersOf(ps') = {}
             /\ psLast'.fired = <<>>
             /\ psShown' = psShown]_vars

\* clear() was called after the popup had been shown.
C12_Witness ==
    /\ psLast.op = "clear"
    /\ psShown > 0
    /\ ps = NewPopupState

\* C23: in every reachable state of PopupState a pending show implies not
\* opened, a pending hide implies opened, a show and a hide are never
\* pending together, and a show (hide) timer is outstanding exactly when
\* willShowSoon (willHideSoon) is true.
C23_PendingMatchesState ==
    /\ ps.willShowSoon => ~ps.opened
    /\ ps.willHideSoon => ps.opened
    /\ ~(ps.willShowSoon /\ ps.willHideSoon)
    /\ ~(ShowTimersOutstanding(ps) > 0 /\ HideTimersOutstanding(ps) > 0)
    /\ ShowTimersOutstanding(ps) = (IF ps.willShowSoon THEN 1 ELSE 0)
    /\ HideTimersOutstanding(ps) = (IF ps.willHideSoon THEN 1 ELSE 0)

\* A show is pending again after the popup has been opened and closed.
C23_Witness ==
    /\ psShown > 0
    /\ psLast.op = "willShow"
    /\ psLast.ret
    /\ ps.willShowSoon
    /\ ShowTimersOutstanding(ps) = 1

(***************************************************************************)
(* Properties of the binding (checked under Spec).  A property of a        *)
(* handler is stated of what the handler does in every reachable state in  *)
(* which it can run.                                                       *)
(***************************************************************************)

Did(W) == {W.log[i][2] : i \in DOMAIN W.log}

\* What a show sequence does to the document and around it.
Mutations ==
    {"pointerEvents", "setBinding", "bindLeave", "append", "will-align", "align",
     "enter", "watch", "cache", "remove"}

\* C2 as claimed: when the leave transition of a hide resolves after the
\* popup was shown again, the popup node is not removed from the document
\* and opened is true afterwards.
C2_ReshownPopupStays ==
    \A i \in DOMAIN tasks :
        (Quiet /\ tasks[i].pc = "leave" /\ bd[tasks[i].b].state.opened)
            => /\ Left(i).doc = doc
               /\ Left(i).bd[tasks[i].b].state.opened

\* C3 as claimed: a show sequence resuming after the render-settle wait
\* during which a hide occurred performs no DOM mutation, whatever else
\* happened during the wait.
C3_NoMutationAfterHide ==
    \A i \in DOMAIN tasks :
        (Oldest(i, "settle") /\ tasks[i].kind = "show" /\ tasks[i].hid)
            => \A aligned \in BOOLEAN : Did(Settled(i, aligned)) \cap Mutations = {}

\* C3, amended: a show sequence resuming after the render-settle wait
\* during which a hide occurred, with the popup not opened again since,
\* performs no DOM mutation: no append, no alignment, no shared-cache
\* registration, no rect watcher; nor does its continuation in
\* doingShowPopup().
C3_NoMutationWhenHidden ==
    /\ \A i \in DOMAIN tasks :
          (Oldest(i, "settle") /\ tasks[i].kind = "show" /\ tasks[i].hid
                /\ ~bd[tasks[i].b].state.opened)
            => \A aligned \in BOOLEAN : \A W \in {Settled(i, aligned)} :
                  /\ Did(W) \cap Mutations = {}
                  /\ W.doc = doc
                  /\ W.cache = cache
                  /\ W.bd[tasks[i].b] = bd[tasks[i].b]
    /\ \A i \in DOMAIN tasks :
          (Oldest(i, "align") /\ ~bd[tasks[i].b].state.opened)
            => \A aligned \in BOOLEAN : \A W \in {Continued(i, aligned)} :
                  /\ Did(W) \cap Mutations = {}
                  /\ W.doc = doc
                  /\ W.bd = bd

\* A keyed binding whose renderer renders a <Popup> was hidden during the
\* wait of a show sequence that is about to resume.
C3_Witness ==
    \E i \in DOMAIN tasks :
        /\ Oldest(i, "settle") /\ tasks[i].kind = "show" /\ tasks[i].hid
        /\ ~bd[tasks[i].b].state.opened
        /\ scn.key # NoKey
        /\ PopupFrom(World, bd[tasks[i].b].rendered) # Null

\* The state of binding b allows a hide request from outside.
CanRequestHide(b) == b \in scn.live /\ Room /\ bd[b].connected

\* C6 as claimed: while keepVisible is set and the popup is opened,
\* hidePopupLater() and the will-hide and immediate-hide intents start no
\* hide timer and fire no do-hide.
C6_HideSuppressed ==
    \A b \in Bindings :
        (CanRequestHide(b) /\ bd[b].options.keepVisible /\ bd[b].state.opened)
            => \A W \in {HidePopupLater(World, b), OnWillHide(World, b),
                         OnImmediateHide(World, b)} :
                  /\ W.bd[b].state = bd[b].state
                  /\ "do-hide" \notin Did(W)

\* C6, amended: while keepVisible is set and the popup is opened, the
\* will-hide and immediate-hide intents start no hide timer and fire no
\* do-hide: they only set preventedHiding, and opened stays true.
C6_IntentsSuppressed ==
    \A b \in Bindings :
        (CanRequestHide(b) /\ bd[b].options.keepVisible /\ bd[b].state.opened)
            => \A W \in {OnWillHide(World, b), OnImmediateHide(World, b)} :
                  /\ W.bd = [bd EXCEPT ![b].preventedHiding = TRUE]
                  /\ W.bd[b].state.opened
                  /\ HideTimersOutstanding(W.bd[b].state) = HideTimersOutstanding(bd[b].state)
                  /\ W.log = <<>>
                  /\ W.tasks = tasks
                  /\ W.doc = doc

\* A hide intent was suppressed: the popup is kept visible, with the hide
\* flagged and no hide timer.
C6_Witness ==
    \E b \in scn.live :
        /\ bd[b].connected
        /\ bd[b].options.keepVisible
        /\ bd[b].state.opened
        /\ bd[b].preventedHiding
        /\ HideTimersOutstanding(bd[b].state) = 0

Entries(W) == {W.log[i] : i \in DOMAIN W.log}

\* What update() does with keepVisible false while a hide is deferred
\* (preventedHiding): it calls hidePopupLater(), after which an opened popup
\* is hidden or has one hide timer pending; and the expiry of a pending hide
\* timer hides the popup.
DeferredHideIssued ==
    \A b \in Bindings :
        /\ \A o \in OptionChoices :
              (b \in scn.live /\ RoomToShow(b) /\ bd[b].preventedHiding /\ ~o.keepVisible)
                => LET W == Update(World, b, scn.renderer, o) IN
                   /\ <<b, "willHide", o.hideDelay>> \in Entries(W)
                   /\ bd[b].state.opened
                        => \/ ~W.bd[b].state.opened
                           \/ /\ W.bd[b].state.willHideSoon
                              /\ HideTimersOutstanding(W.bd[b].state) = 1
                   /\ (bd[b].state.opened /\ ~bd[b].state.willHideSoon)
                        => W.bd[b].state.opened = (o.hideDelay > 0)
        /\ \A w \in HideTimersOf(bd[b].state) :
              (b \in scn.live /\ Quiet)
                => LET W == Dispatch(World, b, HideTimeoutCallback(bd[b].state, w)) IN
                   /\ ~W.bd[b].state.opened
                   /\ <<b, "do-hide", 0>> \in Entries(W)

\* C7: update() with keepVisible false while a hide is deferred
\* (preventedHiding is true) invokes hidePopupLater(), and the popup then
\* becomes hidden once the hide delay has passed, unless the pending hide is
\* cancelled.
C7_DeferredHideHappens ==
    /\ []DeferredHideIssued
    /\ \A b \in Bindings :
          (bd[b].preventedHiding /\ ~bd[b].options.keepVisible /\ bd[b].state.willHideSoon)
              ~> (~bd[b].state.opened \/ ~bd[b].state.willHideSoon)

\* update() has released keepVisible with a hide deferred: the popup is
\* still opened, with the hide pending.
C7_Witness ==
    \E b \in scn.live :
        /\ bd[b].preventedHiding
        /\ ~bd[b].options.keepVisible
        /\ bd[b].state.opened
        /\ bd[b].state.willHideSoon
        /\ HideTimersOutstanding(bd[b].state) = 1


\* No hide sequence of binding b is waiting for its leave transition.
HideCompleted(W, b) ==
    \A i \in DOMAIN W.tasks : ~(W.tasks[i].b = b /\ W.tasks[i].pc = "leave")

\* After a failed alignment of binding b's popup: no exception, do-hide
\* handled, opened false, and no popup in the document once the hide
\* sequence has completed.
HiddenAfterFailure(W, b) ==
    /\ ~W.thrown
    /\ ~W.bd[b].state.opened
    /\ <<b, "do-hide", 0>> \in Entries(W)
    /\ HideCompleted(W, b) => W.bd[b].popup \notin W.doc

\* C14 as claimed: whenever an alignment attempt fails while the popup is
\* opened (in appendPopup(), in doingShowPopup() or on a rect change), the
\* binding hides without an exception, and the popup is not in the document
\* once the hide sequence has completed.
C14_AlignFailureHides ==
    /\ \A i \in DOMAIN tasks :
          (/\ Oldest(i, "settle")
           /\ bd[tasks[i].b].state.opened
           /\ PopupFrom(World, bd[tasks[i].b].rendered) # Null)
            => HiddenAfterFailure(Settled(i, FALSE), tasks[i].b)
    /\ \A i \in DOMAIN tasks :
          (/\ Oldest(i, "align")
           /\ bd[tasks[i].b].state.opened
           /\ bd[tasks[i].b].popup # Null)
            => HiddenAfterFailure(Continued(i, FALSE), tasks[i].b)
    /\ \A b \in Bindings :
          (/\ b \in scn.live /\ Quiet
           /\ WatchersActive(bd[b]) > 0
           /\ bd[b].state.opened
           /\ bd[b].popup # Null)
            => HiddenAfterFailure(OnTriggerRectChanged(World, b, TRUE, FALSE), b)
    /\ \A i \in DOMAIN tasks :
          (/\ Quiet
           /\ tasks[i].pc = "leave"
           /\ ~bd[tasks[i].b].state.opened
           /\ HideCompleted(Left(i), tasks[i].b))
            => Left(i).bd[tasks[i].b].popup \notin Left(i).doc

\* What the teardown leaves of binding b, but for the rect watchers.
TornDown(W, b) ==
    /\ ~W.bd[b].state.opened
    /\ ~W.bd[b].state.willShowSoon
    /\ ~W.bd[b].state.willHideSoon
    /\ ShowTimersOutstanding(W.bd[b].state) = 0
    /\ HideTimersOutstanding(W.bd[b].state) = 0
    /\ (bd[b].state.opened /\ bd[b].popup # Null) => bd[b].popup \notin W.doc
    /\ ~W.bd[b].preventedHiding
    /\ W.bd[b].leave = "none"
    /\ Did(W) \cap {"do-show", "do-hide", "opened-change"} = {}

\* C15 as claimed: after beforeDisconnectCallback(), from any state, opened
\* is false, no timer is outstanding, the popup has been removed if it was
\* open, rect watching is stopped, preventedHiding is false, and no do-show
\* or do-hide fired.
C15_TeardownClean ==
    \A b \in Bindings :
        (b \in scn.live /\ Room /\ bd[b].connected)
          => LET W == BeforeDisconnectCallback(World, b)
             IN  TornDown(W, b) /\ WatchersActive(W.bd[b]) = 0

\* A rect change of the trigger can be reported to binding b while its
\* popup is shown.
RectChangeWhileShown(b) ==
    /\ b \in scn.live
    /\ Quiet
    /\ WatchersActive(bd[b]) > 0
    /\ bd[b].state.opened
    /\ bd[b].popup \in doc

\* C16 as claimed: on a rect change while the popup is shown, a trigger
\* that still intersects the viewport makes the binding realign and stay
\* opened, and one that does not makes it hide without realigning.
C16_RealignOrHide ==
    \A b \in Bindings : \A aligned \in BOOLEAN :
        RectChangeWhileShown(b)
          => LET In  == OnTriggerRectChanged(World, b, TRUE, aligned)
                 Out == OnTriggerRectChanged(World, b, FALSE, aligned)
             IN  /\ "align" \in Did(In)
                 /\ In.bd[b].state.opened
                 /\ ~Out.bd[b].state.opened
                 /\ Did(Out) \cap {"will-align", "align"} = {}

\* C16, amended: a trigger that still intersects the viewport makes the
\* binding realign, firing will-align first, and stay opened if the
\* alignment succeeds (a failed alignment hides); one that does not
\* intersect the viewport makes it hide without realigning.
C16_RealignOrHideOnFailure ==
    \A b \in Bindings : \A aligned \in BOOLEAN :
        RectChangeWhileShown(b)
          => /\ \A In \in {OnTriggerRectChanged(World, b, TRUE, aligned)} :
                 /\ <<b, "align", IF aligned THEN 1 ELSE 0>> \in Entries(In)
                 /\ "will-align" \in Did(In)
                 /\ In.bd[b].state.opened = aligned
                 /\ ("do-hide" \in Did(In)) = ~aligned
                 /\ In.doc = doc
             /\ \A Out \in {OnTriggerRectChanged(World, b, FALSE, aligned)} :
                 /\ ~Out.bd[b].state.opened
                 /\ "do-hide" \in Did(Out)
                 /\ Did(Out) \cap {"will-align", "align"} = {}

\* The popup is shown, appended and watched, with nothing in flight.
C16_Witness ==
    \E b \in scn.live :
        /\ RectChangeWhileShown(b)
        /\ tasks = <<>>
        /\ bd[b].unwatchRect = "live"

\* The cleanups of a hide sequence are done for binding b.
CleanedUp(W, b) ==
    /\ W.bd[b].leave = "none"
    /\ WatchersActive(W.bd[b]) = 0
    /\ ~W.bd[b].preventedHiding

\* C17 as claimed: a hide sequence does none of its three cleanups before
\* its leave transition has resolved, and once the transition has resolved
\* (the popup not having been opened again) or was skipped, leave-listeners
\* are unbound, rect watching is stopped and preventedHiding is false.
C17_CleanupAtEnd ==
    /\ \A b \in Bindings :
          (b \in scn.live /\ Room /\ bd[b].connected /\ bd[b].state.opened)
            => LET W == HidePopup(World, b)
               IN  IF bd[b].options.transition
                   THEN /\ "cleanup" \notin Did(W)
                        /\ W.bd[b].leave = bd[b].leave
                        /\ W.bd[b].unwatchRect = bd[b].unwatchRect
                        /\ W.bd[b].preventedHiding = bd[b].preventedHiding
                   ELSE CleanedUp(W, b)
    /\ \A i \in DOMAIN tasks :
          (Quiet /\ tasks[i].pc = "leave" /\ ~bd[tasks[i].b].state.opened)
            => CleanedUp(Left(i), tasks[i].b)

\* What the handlers, timers and continuations that can run for binding b
\* in the current state leave.
HandlerOutcomes(b) ==
    (IF RoomToShow(b) /\ bd[b].connected
     THEN {ShowPopup(World, b), ShowPopupLater(World, b), OnToggleShowHide(World, b)}
     ELSE {})
    \cup (IF Room /\ bd[b].connected
          THEN {HidePopup(World, b), HidePopupLater(World, b), OnWillHide(World, b),
                OnCancelShow(World, b), OnImmediateHide(World, b),
                BeforeDisconnectCallback(World, b)}
          ELSE {})
    \cup (IF Room THEN {ClearContent(World, b)} ELSE {})
    \cup (IF Quiet
          THEN {Dispatch(World, b, ShowTimeoutCallback(bd[b].state, w)) :
                    w \in ShowTimersOf(bd[b].state)}
               \cup {Dispatch(World, b, HideTimeoutCallback(bd[b].state, w)) :
                         w \in HideTimersOf(bd[b].state)}
          ELSE {})
    \cup (IF Quiet /\ WatchersActive(bd[b]) > 0
          THEN {OnTriggerRectChanged(World, b, inView, aligned) :
                    inView \in BOOLEAN, aligned \in BOOLEAN}
          ELSE {})
    \cup UNION {{Settled(i, aligned) : aligned \in BOOLEAN} :
                  i \in {j \in DOMAIN tasks : Oldest(j, "settle") /\ tasks[j].b = b}}
    \cup UNION {{Continued(i, aligned) : aligned \in BOOLEAN} :
                  i \in {j \in DOMAIN tasks : Oldest(j, "align") /\ tasks[j].b = b}}
    \cup {Left(i) : i \in {j \in DOMAIN tasks :
                                Quiet /\ tasks[j].pc = "leave" /\ tasks[j].b = b}}

\* How many times opened-change(v) was fired for binding b.
OpenedChanges(W, b, v) ==
    Cardinality({i \in DOMAIN W.log : W.log[i] = <<b, "opened-change", v>>})

\* C18 as claimed: whatever changes opened fires opened-change with the new
\* value exactly once: opened-change(true) when opened goes from false to
\* true and opened-change(false) when it goes from true to false, on every
\* path (show, hide, timers, alignment failure, clearContent, disconnect).
C18_OpenedChangeFired ==
    \A b \in Bindings :
        b \in scn.live
          => \A W \in HandlerOutcomes(b) :
                /\ (~bd[b].state.opened /\ W.bd[b].state.opened)
                      => OpenedChanges(W, b, 1) = 1
                /\ (bd[b].state.opened /\ ~W.bd[b].state.opened)
                      => OpenedChanges(W, b, 0) = 1

\* The show attempt was aborted by an error before it changed anything.
AbortedUntouched(W, V) ==
    /\ W.thrown
    /\ Did(W) = {"throw"}
    /\ W.doc = V.doc
    /\ W.cache = V.cache
    /\ W.users = V.users
    /\ W.owners = V.owners
    /\ W.bd = V.bd

\* C19: when what was rendered has no <Popup> as first element child, the
\* show attempt that resumes with the popup opened raises an error before
\* any DOM mutation: nothing is appended, aligned, watched or registered,
\* and doingShowPopup() does not go on to align.  So it is for a renderer
\* that never renders a <Popup>, and for one that update() has just put in
\* the place of a good one.
C19_BadRendererAborts ==
    /\ \A i \in DOMAIN tasks : \A aligned \in BOOLEAN :
          (/\ Oldest(i, "settle")
           /\ bd[tasks[i].b].state.opened
           /\ PopupFrom(World, bd[tasks[i].b].rendered) = Null)
            => \A W \in {Settled(i, aligned)} :
                 /\ AbortedUntouched(W, World)
                 /\ W.tasks = Without(tasks, i)
    /\ \A b \in scn.live :
          (RoomToShow(b) /\ bd[b].state.opened)
            => \A o \in OptionChoices :
                 \A W1 \in {[Update(World, b, "other", o) EXCEPT !.log = <<>>]} :
                    W1.bd[b].state.opened
                      => \A aligned \in BOOLEAN :
                           \A W2 \in {UpdatePopupResume(W1, b, aligned)} :
                              AbortedUntouched(W2, W1)

\* A show sequence is about to resume with the popup opened and no <Popup>
\* in what was rendered.
C19_Witness ==
    \E i \in DOMAIN tasks :
        /\ Oldest(i, "settle")
        /\ tasks[i].kind = "show"
        /\ bd[tasks[i].b].state.opened
        /\ bd[tasks[i].b].rendered # Null
        /\ PopupFrom(World, bd[tasks[i].b].rendered) = Null

\* Binding b is quiescent: no show or hide timer outstanding, no sequence
\* waiting for the render to settle, to continue or for a transition.
Quiescent(b) ==
    /\ ShowTimersOutstanding(bd[b].state) = 0
    /\ HideTimersOutstanding(bd[b].state) = 0
    /\ \A i \in DOMAIN tasks : tasks[i].b # b

\* The popup node of binding b is attached to the document.
Attached(b) == bd[b].popup # Null /\ bd[b].popup \in doc

\* C24: whenever the binding is quiescent, its popup node is attached to
\* the document if and only if opened is true, with or without a leave
\* transition configured.
C24_AttachedIffOpened ==
    \A b \in scn.live : Quiescent(b) => (Attached(b) <=> bd[b].state.opened)

\* C25: at most one rect watcher registered by a binding is active at any
\* time, and none is once a hide sequence, clearContent() or the
\* disconnect has completed, whatever update() calls and rect changes came
\* before.
C25_OneWatcher ==
    /\ \A b \in scn.live : WatchersActive(bd[b]) <= 1
    /\ \A b \in scn.live :
          Room => /\ WatchersActive(ClearContent(World, b).bd[b]) = 0
                  /\ bd[b].connected
                        => WatchersActive(BeforeDisconnectCallback(World, b).bd[b]) = 0
    /\ \A i \in DOMAIN tasks :
          (Quiet /\ tasks[i].pc = "leave" /\ ~bd[tasks[i].b].state.opened)
            => WatchersActive(Left(i).bd[tasks[i].b]) = 0

\* C26: a preventedHiding flag set while the popup was not opened, or
\* during an earlier opened period, is never still true when the popup is
\* next opened, so that update() cannot hide a popup for a hide intent
\* older than its opening.
C26_NoStaleSuppressedHide ==
    [][\A b \in Bindings :
          (~bd[b].state.opened /\ bd'[b].state.opened) => ~bd'[b].preventedHiding]_vars

(***************************************************************************)
(* Properties of showing (checked under SwitchSpec)                        *)
(***************************************************************************)

\* A popup registered for the key of binding b is open: the binding using
\* the registered popup has it opened.
SameKeyedOpen(b) ==
    /\ bd[b].options.key # NoKey
    /\ \E c \in scn.live :
          /\ bd[c].state.opened
          /\ bd[c].popup # Null
          /\ cache[bd[b].options.key].popup = bd[c].popup
          /\ <<bd[c].popup, c>> \in users

VisibleNodes ==
    {p \in doc : \E b \in scn.live : bd[b].popup = p /\ bd[b].state.opened}

\* C4 as claimed: of two bindings sharing a key, at most one popup content
\* node is visible in the document at any time (a second binding that opens
\* leaves no node of the first beside its own), and showPopupLater() of a
\* binding uses show delay zero while the other's popup is open and
\* registered.
C4_OneNodePerKey ==
    /\ Cardinality(VisibleNodes) <= 1
    /\ \A b \in scn.live :
          (\E c \in scn.live \ {b} :
                /\ bd[b].connected
                /\ bd[b].options.key = scn.key
                /\ bd[c].state.opened
                /\ bd[c].popup # Null
                /\ bd[c].popup \in doc
                /\ cache[scn.key].popup = bd[c].popup
                /\ UserOf(World, bd[c].popup) = c)
            => EffectiveShowDelay(World, b) = 0

(***************************************************************************)
(* Properties of connecting (checked under SwitchSpec)                     *)
(***************************************************************************)

\* C20: when showImmediately is true as the binding connects, opened is true
\* when afterConnectCallback() returns, whatever the trigger type and the
\* show delay.
C20_ShownOnConnect ==
    \A b \in Bindings :
        (/\ b \in scn.live
         /\ RoomToShow(b)
         /\ ~bd[b].connected
         /\ bd[b].renderer # "null"
         /\ bd[b].options.showImmediately)
          => AfterConnectCallback(World, b).bd[b].state.opened

(***************************************************************************)
(* Properties of the show sequence with shared content (checked under      *)
(* SwitchSpec)                                                             *)
(***************************************************************************)

\* C21: whenever doingShowPopup() completes with the binding still opened,
\* the popup it displays has this binding as its binding (setBinding) and
\* leave-detection is bound over the trigger and the popup's element, also
\* when the content came from the shared cache of a same-keyed binding.
C21_BoundToDisplayedPopup ==
    \A i \in DOMAIN tasks : \A aligned \in BOOLEAN :
        (Oldest(i, "align") /\ tasks[i].kind = "show")
          => LET b == tasks[i].b
                 W == Continued(i, aligned)
             IN  (W.bd[b].state.opened /\ ~W.thrown)
                   => /\ W.bd[b].popup # Null
                      /\ <<W.bd[b].popup, b>> \in W.owners
                      /\ W.bd[b].leave = "both"

(***************************************************************************)
(* Properties of Table (checked under TableSpec)                           *)
(***************************************************************************)

\* The table after a click on the head of the column at index, outside any
\* resizer.
Clicked(t, index) == DoOrdering(t, columns, FALSE, index)

\* The direction that follows d in the cycle of a column.
NextDirection(column, d) ==
    LET first  == IF column.descFirst THEN "desc" ELSE "asc"
        second == IF column.descFirst THEN "asc" ELSE "desc"
    IN  IF d = "null" THEN first ELSE IF d = first THEN second ELSE "null"

\* C22: repeated clicks on the same orderable column cycle its direction
\* with period three, asc, desc, null (desc, asc, null when descFirst); a
\* click on a different orderable column sets orderName to it with the
\* first direction of its cycle; a click on a column without orderBy
\* leaves orderName and orderDirection as they are and fires no
\* order-change.
C22_OrderingCycle ==
    \A index \in 0..(Len(columns) - 1) :
        LET column == columns[index + 1]
            name   == GetColumnName(column, index)
            t1     == Clicked(tbl, index)
            t2     == Clicked(t1, index)
            t3     == Clicked(t2, index)
            t4     == Clicked(t3, index)
        IN  IF column.orderBy
            THEN /\ t1.orderName = name
                 /\ t1.orderDirection =
                        IF tbl.orderName = name
                        THEN NextDirection(column, tbl.orderDirection)
                        ELSE NextDirection(column, "null")
                 /\ t2 = [orderName |-> name,
                          orderDirection |-> NextDirection(column, t1.orderDirection)]
                 /\ t3 = [orderName |-> name,
                          orderDirection |-> NextDirection(column, t2.orderDirection)]
                 /\ t4 = t1
                 /\ {t1.orderDirection, t2.orderDirection, t3.orderDirection}
                        = {"asc", "desc", "null"}
            ELSE /\ t1 = tbl
                 /\ ApplyOrder(tbl, t1) = <<>>

\* The third click in a row on an orderable column has left it unordered,
\* and the event said so.
C22_Witness ==
    /\ tblLast.op = "click"
    /\ columns[tblLast.index + 1].orderBy
    /\ tbl = [orderName |-> GetColumnName(columns[tblLast.index + 1], tblLast.index),
              orderDirection |-> "null"]
    /\ tblFired = << <<tbl.orderName, "null">> >>

(***************************************************************************)
(* Properties of aligning (checked under AlignSpec)                        *)
(***************************************************************************)

\* The Aligner of binding x aligns with the alignment options of x's
\* options, each one forwarded unchanged.
AlignsWithOptions(x) ==
    /\ x.aligner.content = x.popup
    /\ x.aligner.position = x.options.align.alignPosition
    /\ x.aligner.options =
          [gap |-> x.options.align.gap,
           stickToEdges |-> x.options.align.stickToEdges,
           canSwapPosition |-> x.options.align.canSwapPosition,
           canShrinkOnY |-> x.options.align.canShrinkOnY,
           fixTriangle |-> x.options.align.fixTriangle]

\* C27: every alignment attempt uses the alignment options of the most
\* recent update(): whenever alignPopup() aligns, in the show sequence, in
\* an update or on a rect change, its Aligner has the binding's current
\* alignPosition and aligner options.
C27_AlignsWithLatestOptions ==
    /\ \A i \in DOMAIN tasks : \A aligned \in BOOLEAN :
          (Oldest(i, "align") /\ "align" \in Did(Continued(i, aligned)))
            => AlignsWithOptions(Continued(i, aligned).bd[tasks[i].b])
    /\ \A i \in DOMAIN tasks : \A aligned \in BOOLEAN :
          (Oldest(i, "settle") /\ "align" \in Did(Settled(i, aligned)))
            => AlignsWithOptions(Settled(i, aligned).bd[tasks[i].b])
    /\ \A b \in scn.live : \A aligned \in BOOLEAN :
          (/\ Quiet
           /\ WatchersActive(bd[b]) > 0
           /\ "align" \in Did(OnTriggerRectChanged(World, b, TRUE, aligned)))
            => AlignsWithOptions(OnTriggerRectChanged(World, b, TRUE, aligned).bd[b])

====
